---- MODULE Spec2Model ----
(***************************************************************************)
(* Model of bpm_web_lookup.py: the BPM lookup pipeline                     *)
(*   known_bpms cache -> Tunebat API (-> tunebat.com scraping) ->          *)
(*   songbpm.com scraping                                                  *)
(* Strings are sequences of one-character strings, so that lower(), the    *)
(* slug construction and the regular expressions are computed.             *)
(***************************************************************************)
EXTENDS Integers, Sequences, FiniteSets, TLC

(* ---------------------------------------------------------------------- *)
(* Bounds of the model                                                     *)
(* ---------------------------------------------------------------------- *)

\* number of program runs (one lookup each) against the same database file
MaxRuns == 2

\* length of the item lists given to the API adapter on its own
MaxItems == 2

\* number of program runs when the requests are kept on record
MaxTracedRuns == 1

(* ---------------------------------------------------------------------- *)
(* Strings                                                                 *)
(* ---------------------------------------------------------------------- *)

Digits == {"0", "1", "2", "3", "4", "5", "6", "7", "8", "9"}

UpperLetters ==
  <<"A", "B", "C", "D", "E", "F", "G", "H", "I", "J", "K", "L", "M",
    "N", "O", "P", "Q", "R", "S", "T", "U", "V", "W", "X", "Y", "Z">>

LowerLetters ==
  <<"a", "b", "c", "d", "e", "f", "g", "h", "i", "j", "k", "l", "m",
    "n", "o", "p", "q", "r", "s", "t", "u", "v", "w", "x", "y", "z">>

RECURSIVE PairUp(_, _)
PairUp(from, to) ==
  IF Len(from) = 1 THEN Head(from) :> Head(to)
  ELSE (Head(from) :> Head(to)) @@ PairUp(Tail(from), Tail(to))

\* the lower-case letter of each upper-case letter
LowerOf == PairUp(UpperLetters, LowerLetters)

Letters == DOMAIN LowerOf \cup {LowerOf[c] : c \in DOMAIN LowerOf}

\* str.lower() on one character
LowerChar(c) == IF c \in DOMAIN LowerOf THEN LowerOf[c] ELSE c

Lower(s) == [i \in 1..Len(s) |-> LowerChar(s[i])]

\* SQLite's LOWER(): folds the ASCII letters
SqlLower(s) == [i \in 1..Len(s) |-> LowerChar(s[i])]

\* str.replace(from, to) for a single character
Replace(s, from, to) == [i \in 1..Len(s) |-> IF s[i] = from THEN to ELSE s[i]]

\* \w of the regular expressions: letters, digits, underscore
IsWordChar(c) == c \in Digits \/ c = "_" \/ c \in Letters

\* re.sub(r'[^\w\-]', '', s)
StripSpecial(s) == SelectSeq(s, LAMBDA c : IsWordChar(c) \/ c = "-")

\* str.strip()
RECURSIVE LStrip(_)
LStrip(s) == IF s # <<>> /\ Head(s) = " " THEN LStrip(Tail(s)) ELSE s

RECURSIVE RStrip(_)
RStrip(s) ==
  IF s # <<>> /\ s[Len(s)] = " " THEN RStrip(SubSeq(s, 1, Len(s) - 1)) ELSE s

Strip(s) == RStrip(LStrip(s))

\* the maximal run of digits at the head of s
RECURSIVE DigitRun(_)
DigitRun(s) ==
  IF s # <<>> /\ Head(s) \in Digits THEN <<Head(s)>> \o DigitRun(Tail(s)) ELSE <<>>

\* re.search(r'(\d+)', s): group 1 of the first match, <<>> when none
RECURSIVE FirstDigits(_)
FirstDigits(s) ==
  IF s = <<>> THEN <<>>
  ELSE IF Head(s) \in Digits THEN DigitRun(s)
  ELSE FirstDigits(Tail(s))

\* re.match(r'^\d+$', s)
AllDigits(s) == s # <<>> /\ \A i \in 1..Len(s) : s[i] \in Digits

\* s[i..] 
From(s, i) == SubSeq(s, i, Len(s))

\* s starts with lit; ci: ignoring case (re.IGNORECASE)
StartsWith(s, lit, ci) ==
  /\ Len(s) >= Len(lit)
  /\ \A i \in 1..Len(lit) :
       IF ci THEN LowerChar(s[i]) = LowerChar(lit[i]) ELSE s[i] = lit[i]

\* lit in s
Contains(s, lit) == \E i \in 1..(Len(s) + 1) : StartsWith(From(s, i), lit, FALSE)

\* \s*
RECURSIVE SkipSpaces(_)
SkipSpaces(s) == IF s # <<>> /\ Head(s) = " " THEN SkipSpaces(Tail(s)) ELSE s

\* [:-]?
SkipSep(s) == IF s # <<>> /\ Head(s) \in {":", "-"} THEN Tail(s) ELSE s

\* [^\d]*
RECURSIVE SkipNonDigits(_)
SkipNonDigits(s) == IF s # <<>> /\ Head(s) \notin Digits THEN SkipNonDigits(Tail(s)) ELSE s

\* (\d+)\s*lit matches at the head of s
NumLitAt(s, lit) ==
  /\ DigitRun(s) # <<>>
  /\ StartsWith(SkipSpaces(From(s, Len(DigitRun(s)) + 1)), lit, TRUE)

\* group 1 of the first match of (\d+)\s*lit in s (re.IGNORECASE), <<>> when none
RECURSIVE NumThenLit(_, _)
NumThenLit(s, lit) ==
  IF s = <<>> THEN <<>>
  ELSE IF NumLitAt(s, lit) THEN DigitRun(s)
  ELSE NumThenLit(Tail(s), lit)

\* what follows lit\s*[:-]?\s* at the head of s
AfterLitSep(s, lit) == SkipSpaces(SkipSep(SkipSpaces(From(s, Len(lit) + 1))))

\* group 1 of the first match of lit\s*[:-]?\s*(\d+) in s (re.IGNORECASE)
RECURSIVE LitThenNum(_, _)
LitThenNum(s, lit) ==
  IF s = <<>> THEN <<>>
  ELSE IF StartsWith(s, lit, TRUE) /\ DigitRun(AfterLitSep(s, lit)) # <<>>
  THEN DigitRun(AfterLitSep(s, lit))
  ELSE LitThenNum(Tail(s), lit)

\* group 1 of the first match of Tempo \(BPM\)[^\d]*(\d+) in s
RECURSIVE TempoLabelNum(_, _)
TempoLabelNum(s, lit) ==
  IF s = <<>> THEN <<>>
  ELSE IF StartsWith(s, lit, FALSE) /\ DigitRun(SkipNonDigits(From(s, Len(lit) + 1))) # <<>>
  THEN DigitRun(SkipNonDigits(From(s, Len(lit) + 1)))
  ELSE TempoLabelNum(Tail(s), lit)

\* the literals of the patterns
LitBPM == <<"B", "P", "M">>
LitTempo == <<"t", "e", "m", "p", "o">>
LitBeats ==
  <<"b", "e", "a", "t", "s", " ", "p", "e", "r", " ", "m", "i", "n", "u", "t", "e">>
LitTempoBPM == <<"T", "e", "m", "p", "o", " ", "(", "B", "P", "M", ")">>

DigitVal(c) ==
  CASE c = "0" -> 0 [] c = "1" -> 1 [] c = "2" -> 2 [] c = "3" -> 3
    [] c = "4" -> 4 [] c = "5" -> 5 [] c = "6" -> 6 [] c = "7" -> 7
    [] c = "8" -> 8 [] c = "9" -> 9

\* int(s) for an all-digit s
RECURSIVE ToInt(_)
ToInt(s) ==
  IF s = <<>> THEN 0 ELSE 10 * ToInt(SubSeq(s, 1, Len(s) - 1)) + DigitVal(s[Len(s)])

(* ---------------------------------------------------------------------- *)
(* Python values held by the bpm variables                                 *)
(* ---------------------------------------------------------------------- *)

None == [k |-> "none", s |-> <<>>]
StrV(s) == [k |-> "str", s |-> s]
\* an int, written by its decimal digits
IntV(s) == [k |-> "int", s |-> s]
\* a non-empty JSON array or object
List == [k |-> "list", s |-> <<>>]

\* truth value of a Python object, as tested by "if bpm" / "if not bpm"
Truthy(v) ==
  CASE v.k = "none" -> FALSE
    [] v.k = "str" -> v.s # <<>>
    [] v.k = "int" -> ToInt(v.s) # 0
    [] OTHER -> TRUE

\* str(v)
PyStr(v) ==
  CASE v.k = "none" -> StrV(<<"N", "o", "n", "e">>)
    [] v.k = "list" -> StrV(<<"[", "]">>)
    [] OTHER -> StrV(v.s)

(* ---------------------------------------------------------------------- *)
(* The known_bpms database                                                 *)
(* ---------------------------------------------------------------------- *)

\* what the storage does to one database operation:
\*   ok            nothing goes wrong
\*   open_error    creating or opening the file raises, nothing is left behind
\*   create_error  creating the table raises, an empty file is left behind
\*   sql_error     a statement or the commit raises sqlite3.Error
StorageFaults == {"ok", "open_error", "create_error", "sql_error"}

\* the faults that differ in effect on database d, for an operation that is
\* made (used) or not: create_error needs the file to be absent
FaultsOn(d, used) ==
  IF ~used THEN {"ok"}
  ELSE IF d.file THEN StorageFaults \ {"create_error"}
  ELSE StorageFaults

\* the database before the first run: no file
NoDatabase == [file |-> FALSE, table |-> FALSE, rows |-> {}, nextId |-> 1]

\* init_database(): creates file and table when the file does not exist
InitDatabase(d, fault) ==
  IF d.file THEN [db |-> d, raised |-> FALSE]
  ELSE CASE fault = "open_error" -> [db |-> d, raised |-> TRUE]
         [] fault = "create_error" -> [db |-> [d EXCEPT !.file = TRUE], raised |-> TRUE]
         [] OTHER -> [db |-> [d EXCEPT !.file = TRUE, !.table = TRUE], raised |-> FALSE]

\* WHERE LOWER(artist) = LOWER(?) AND LOWER(track) = LOWER(?)
\* with the parameters (artist.lower(), track.lower())
SelectKey(rows, artist, track) ==
  {r \in rows : /\ SqlLower(r.artist) = SqlLower(Lower(artist))
                /\ SqlLower(r.track) = SqlLower(Lower(track))}

\* cursor.fetchone(): the matching row of lowest rowid
FetchOne(found) == CHOOSE r \in found : \A q \in found : r.id <= q.id

\* check_known_bpms(artist, track): the value returned, or raised
CheckKnownBpms(d, artist, track, fault) ==
  LET ini == InitDatabase(d, fault)
      found == SelectKey(ini.db.rows, artist, track)
  IN  IF ini.raised \/ fault = "open_error" \/ fault = "sql_error" \/ ~ini.db.table
      THEN [db |-> ini.db, raised |-> TRUE, result |-> None]
      ELSE [db |-> ini.db, raised |-> FALSE,
            result |-> IF found # {} THEN StrV(FetchOne(found).bpm) ELSE None]

\* a Python value that sqlite3 can bind to the bpm column (TEXT NOT NULL)
Bindable(v) == v.k \in {"str", "int"}

\* Upsert without the case folding: the SELECT compares the stored columns
\* with the arguments as given, the INSERT stores them as given
UpsertRawCase(d, artist, track, bpm, source, now) ==
  LET existing == {r \in d.rows : r.artist = artist /\ r.track = track}
  IN  IF existing # {}
      THEN LET e == FetchOne(existing)
           IN  [d EXCEPT !.rows = (d.rows \ {e}) \cup
                   {[e EXCEPT !.bpm = bpm.s, !.source = source, !.timestamp = now]}]
      ELSE [d EXCEPT !.rows = d.rows \cup
                 {[id |-> d.nextId, artist |-> artist, track |-> track,
                   bpm |-> bpm.s, source |-> source, timestamp |-> now]},
               !.nextId = d.nextId + 1]

\* Upsert that leaves an existing record as it is (INSERT OR IGNORE)
UpsertKeepFirst(d, artist, track, bpm, source, now) ==
  IF SelectKey(d.rows, artist, track) # {} THEN d
  ELSE [d EXCEPT !.rows = d.rows \cup
             {[id |-> d.nextId, artist |-> Lower(artist), track |-> Lower(track),
               bpm |-> bpm.s, source |-> source, timestamp |-> now]},
           !.nextId = d.nextId + 1]

\* the rows after the UPDATE or INSERT of save_bpm_to_db has been committed
Upsert(d, artist, track, bpm, source, now) ==
  LET existing == SelectKey(d.rows, artist, track)
  IN  IF existing # {}
      THEN LET e == FetchOne(existing)
           IN  [d EXCEPT !.rows = (d.rows \ {e}) \cup
                   {[e EXCEPT !.bpm = bpm.s, !.source = source, !.timestamp = now]}]
      ELSE IF \E r \in d.rows : r.artist = Lower(artist) /\ r.track = Lower(track)
      THEN d   \* UNIQUE(artist, track) is violated: nothing is committed
      ELSE [d EXCEPT !.rows = d.rows \cup
                 {[id |-> d.nextId, artist |-> Lower(artist), track |-> Lower(track),
                   bpm |-> bpm.s, source |-> source, timestamp |-> now]},
               !.nextId = d.nextId + 1]

\* the INSERT would violate UNIQUE(artist, track)
UniqueViolated(d, artist, track) ==
  /\ SelectKey(d.rows, artist, track) = {}
  /\ \E r \in d.rows : r.artist = Lower(artist) /\ r.track = Lower(track)

\* save_bpm_to_db(artist, track, bpm, source): the database afterwards,
\* whether an exception leaves the function, and whether a row was committed
SaveBpmToDb(d, artist, track, bpm, source, now, fault) ==
  LET ini == InitDatabase(d, fault)
  IN  IF ini.raised \/ fault = "open_error"
      THEN [db |-> ini.db, raised |-> TRUE, committed |-> FALSE]
      ELSE IF \/ fault = "sql_error" \/ ~ini.db.table \/ ~Bindable(bpm)
              \/ UniqueViolated(ini.db, artist, track)
      THEN [db |-> ini.db, raised |-> FALSE, committed |-> FALSE]
      ELSE [db |-> Upsert(ini.db, artist, track, bpm, source, now),
            raised |-> FALSE, committed |-> TRUE]

(* ---------------------------------------------------------------------- *)
(* Pages: what BeautifulSoup and the regular expressions see               *)
(* ---------------------------------------------------------------------- *)

\* the content of a script element as json.loads sees it
\*   k = "none"     not a script      k = "invalid"  json.loads raises JSONDecodeError
\*   k = "scalar"   a JSON number, or script.string is None: TypeError
\*   k = "object"   a JSON object, with a 'tempo' member when has
NoJson == [k |-> "none", has |-> FALSE, tempo |-> None]
BadJson == [k |-> "invalid", has |-> FALSE, tempo |-> None]
ScalarJson == [k |-> "scalar", has |-> FALSE, tempo |-> None]
ObjectJson(has, tempo) == [k |-> "object", has |-> has, tempo |-> tempo]

\* an element: its classes, its own text, its child elements, its JSON
Leaf(cls, text) == [cls |-> cls, text |-> text, kids |-> <<>>, json |-> NoJson]
Parent(cls, text, kids) == [cls |-> cls, text |-> text, kids |-> kids, json |-> NoJson]
Script(text, json) == [cls |-> {"ld+json"}, text |-> text, kids |-> <<>>, json |-> json]

RECURSIVE Flatten(_)
Flatten(ss) == IF ss = <<>> THEN <<>> ELSE Head(ss) \o Flatten(Tail(ss))

\* element.text / element.get_text(): own text, then the children's
NodeText(n) == n.text \o Flatten([i \in 1..Len(n.kids) |-> n.kids[i].text])

\* the elements of a page in document order
AllNodes(page) == Flatten([i \in 1..Len(page) |-> <<page[i]>> \o page[i].kids])

\* response.text: every element's text after its tag (the tag is the token "<")
Raw(page) ==
  Flatten([i \in 1..Len(AllNodes(page)) |-> <<"<">> \o AllNodes(page)[i].text])

\* soup.select(selector) for a selector that asks for the classes cls
Select(page, cls) == SelectSeq(AllNodes(page), LAMBDA n : cls \subseteq n.cls)

\* the outcome of looking at one page
NotFound == [kind |-> "none", v |-> None]
Found(v) == [kind |-> "value", v |-> v]
Raised == [kind |-> "error", v |-> None]

\* the least index of seq whose element satisfies P, 0 when none
FirstIdx(seq, P(_)) ==
  IF \E i \in 1..Len(seq) : P(seq[i])
  THEN CHOOSE i \in 1..Len(seq) : P(seq[i]) /\ \A j \in 1..(i - 1) : ~P(seq[j])
  ELSE 0

(* songbpm.com: the four methods of get_bpm_from_songbpm on one page ------ *)

\* Method 1: soup.select_one('.bpm-value, h1 + div'), first integer of its text
SongbpmMethod1(page) ==
  LET els == SelectSeq(AllNodes(page),
                       LAMBDA n : "bpm-value" \in n.cls \/ "h1+div" \in n.cls)
  IN  IF els # <<>> /\ FirstDigits(Strip(NodeText(els[1]))) # <<>>
      THEN Found(StrV(FirstDigits(Strip(NodeText(els[1])))))
      ELSE NotFound

\* Method 2: the first .song-metrics element with 'Tempo (BPM)' and a number after it
SongbpmMethod2(page) ==
  LET metrics == Select(page, {"song-metrics"})
      Hit(m) == /\ Contains(NodeText(m), LitTempoBPM)
                /\ TempoLabelNum(NodeText(m), LitTempoBPM) # <<>>
      i == FirstIdx(metrics, Hit)
  IN  IF i # 0 THEN Found(StrV(TempoLabelNum(NodeText(metrics[i]), LitTempoBPM)))
      ELSE NotFound

\* Method 3: the application/ld+json scripts in order; JSONDecodeError and
\* AttributeError skip a script, any other exception leaves the method
SongbpmMethod3(page) ==
  LET scripts == Select(page, {"ld+json"})
      Decides(n) == n.json.k = "scalar" \/ (n.json.k = "object" /\ n.json.has)
      i == FirstIdx(scripts, Decides)
  IN  IF i = 0 THEN NotFound
      ELSE IF scripts[i].json.k = "scalar" THEN Raised
      ELSE Found(scripts[i].json.tempo)

\* Method 4: first match of (\d+)\s*BPM in response.text
SongbpmMethod4(page) ==
  IF NumThenLit(Raw(page), LitBPM) # <<>>
  THEN Found(StrV(NumThenLit(Raw(page), LitBPM)))
  ELSE NotFound

\* the value the page yields: the first method that finds one
SongbpmExtract(page) ==
  IF SongbpmMethod1(page).kind # "none" THEN SongbpmMethod1(page)
  ELSE IF SongbpmMethod2(page).kind # "none" THEN SongbpmMethod2(page)
  ELSE IF SongbpmMethod3(page).kind # "none" THEN SongbpmMethod3(page)
  ELSE SongbpmMethod4(page)

(* tunebat.com: the three methods of get_bpm_from_tunebat_web_scraping ---- *)

HasValueDiv(row) == \E j \in 1..Len(row.kids) : "attribute-value" \in row.kids[j].cls

ValueDiv(row) ==
  row.kids[CHOOSE j \in 1..Len(row.kids) :
             /\ "attribute-value" \in row.kids[j].cls
             /\ \A h \in 1..(j - 1) : "attribute-value" \notin row.kids[h].cls]

\* Method 1: the first div.row.attribute with 'BPM' in its text and a
\* div.attribute-value inside; the stripped text of that div
TunebatMethod1(page) ==
  LET rows == Select(page, {"row", "attribute"})
      Hit(r) == Contains(NodeText(r), LitBPM) /\ HasValueDiv(r)
      i == FirstIdx(rows, Hit)
  IN  IF i # 0 THEN Found(StrV(Strip(ValueDiv(rows[i]).text))) ELSE NotFound

TunebatSelectors == <<"attribute-value", "bpm-value", "tempo-value", "bpm", "tempo">>

\* "if re.match(r'^\d+$', text) and 40 <= int(text) <= 220"
LooksLikeBpm(text) == AllDigits(text) /\ 40 <= ToInt(text) /\ ToInt(text) <= 220

\* Method 2: the selectors in order, the elements of each in document order
TunebatMethod2(page) ==
  LET Els(k) == Select(page, {TunebatSelectors[k]})
      Ok(n) == LooksLikeBpm(Strip(NodeText(n)))
      HasOk(k) == FirstIdx(Els(k), Ok) # 0
  IN  IF \E k \in 1..Len(TunebatSelectors) : HasOk(k)
      THEN LET k == CHOOSE k \in 1..Len(TunebatSelectors) :
                      HasOk(k) /\ \A h \in 1..(k - 1) : ~HasOk(h)
           IN  Found(StrV(Strip(NodeText(Els(k)[FirstIdx(Els(k), Ok)]))))
      ELSE NotFound

\* Method 3: the four patterns in order on response.text
TunebatMethod3(page) ==
  LET raw == Raw(page)
  IN  IF NumThenLit(raw, LitBPM) # <<>> THEN Found(StrV(NumThenLit(raw, LitBPM)))
      ELSE IF LitThenNum(raw, LitBPM) # <<>> THEN Found(StrV(LitThenNum(raw, LitBPM)))
      ELSE IF LitThenNum(raw, LitTempo) # <<>> THEN Found(StrV(LitThenNum(raw, LitTempo)))
      ELSE IF NumThenLit(raw, LitBeats) # <<>> THEN Found(StrV(NumThenLit(raw, LitBeats)))
      ELSE NotFound

(* ---------------------------------------------------------------------- *)
(* Request targets                                                         *)
(* ---------------------------------------------------------------------- *)

\* requests.utils.quote: unreserved characters and "/" stay, the rest is %XX
QuoteChar(c) ==
  IF IsWordChar(c) \/ c \in {".", "-", "~", "/"} THEN <<c>>
  ELSE CASE c = " " -> <<"%", "2", "0">>
         [] c = "!" -> <<"%", "2", "1">>

Quote(s) == Flatten([i \in 1..Len(s) |-> QuoteChar(s[i])])

\* api_url of get_bpm_from_tunebat
ApiUrl(artist, track) ==
  <<"https://api.tunebat.com/api/tracks/search?term=">> \o Quote(artist \o <<" ">> \o track)

\* the candidates of tunebat.com with the first one tried again at the end
TunebatUrlsRetry(artist, track) ==
  LET artist_clean == StripSpecial(Replace(Lower(artist), " ", "-"))
      track_clean == StripSpecial(Replace(Lower(track), " ", "-"))
      info == <<"https://tunebat.com/Info/">>
  IN  << info \o track_clean \o <<"-">> \o artist_clean,
         info \o artist_clean \o <<"-">> \o track_clean,
         info \o track_clean \o <<"/">> \o artist_clean,
         info \o track_clean \o <<"-", "b", "y", "-">> \o artist_clean,
         info \o track_clean \o <<"-">> \o artist_clean >>

\* urls of get_bpm_from_tunebat_web_scraping
TunebatUrls(artist, track) ==
  LET artist_clean == StripSpecial(Replace(Lower(artist), " ", "-"))
      track_clean == StripSpecial(Replace(Lower(track), " ", "-"))
      info == <<"https://tunebat.com/Info/">>
  IN  << info \o track_clean \o <<"-">> \o artist_clean,
         info \o artist_clean \o <<"-">> \o track_clean,
         info \o track_clean \o <<"/">> \o artist_clean,
         info \o track_clean \o <<"-", "b", "y", "-">> \o artist_clean >>

\* urls of get_bpm_from_songbpm
SongbpmUrls(artist, track) ==
  LET artist_dash == Replace(Lower(artist), " ", "-")
      track_dash == Replace(Lower(track), " ", "-")
      artist_plus == Replace(Lower(artist), " ", "+")
      track_plus == Replace(Lower(track), " ", "+")
      site == <<"https://songbpm.com/">>
  IN  << site \o <<"@">> \o artist_dash \o <<"/">> \o track_dash,
         site \o artist_plus \o <<"/">> \o track_plus >>

(* ---------------------------------------------------------------------- *)
(* The Tunebat API adapter on one response                                 *)
(* ---------------------------------------------------------------------- *)

\* an item of data.items: 'as' the artists, 'n' the title, 'b' the BPM when hasB
Item(as, n, hasB, b) == [as |-> as, n |-> n, hasB |-> hasB, b |-> b]

\* "artist.lower() in [a.lower() for a in item.get('as', [])] and
\*  track.lower() == item.get('n', '').lower()"
ExactMatch(item, artist, track) ==
  /\ \E j \in 1..Len(item.as) : Lower(item.as[j]) = Lower(artist)
  /\ Lower(item.n) = Lower(track)

\* best_match without the break: the last item that matches wins
BestMatchNoBreak(items, artist, track) ==
  LET hits == {i \in 1..Len(items) : ExactMatch(items[i], artist, track)}
  IN  IF hits = {} THEN items[1]
      ELSE items[CHOOSE i \in hits : \A j \in hits : j <= i]

\* best_match: items[0], or the first item that matches artist and title
BestMatch(items, artist, track) ==
  LET Hit(it) == ExactMatch(it, artist, track)
  IN  IF FirstIdx(items, Hit) # 0 THEN items[FirstIdx(items, Hit)] ELSE items[1]

\* the decision with a return in the JSONDecodeError handler: an unparseable
\* body reports not-found
TunebatApiDecisionReturnsOnBadJson(resp, artist, track) ==
  IF resp.kind = "ok" /\ resp.body = "invalid" THEN [kind |-> "return", v |-> None]
  ELSE IF resp.kind = "ok" /\ resp.body = "items"
  THEN IF resp.items = <<>> THEN [kind |-> "return", v |-> None]
       ELSE IF BestMatch(resp.items, artist, track).hasB
       THEN [kind |-> "found", v |-> PyStr(BestMatch(resp.items, artist, track).b)]
       ELSE [kind |-> "fallback", v |-> None]
  ELSE [kind |-> "fallback", v |-> None]

\* the decision with a return in the 429 branch: a rate limit reports not-found
TunebatApiDecisionReturnsOn429(resp, artist, track) ==
  IF resp.kind = "status" /\ resp.code = 429 THEN [kind |-> "return", v |-> None]
  ELSE IF resp.kind = "ok" /\ resp.body = "items"
  THEN IF resp.items = <<>> THEN [kind |-> "return", v |-> None]
       ELSE IF BestMatch(resp.items, artist, track).hasB
       THEN [kind |-> "found", v |-> PyStr(BestMatch(resp.items, artist, track).b)]
       ELSE [kind |-> "fallback", v |-> None]
  ELSE [kind |-> "fallback", v |-> None]

\* what get_bpm_from_tunebat does with a response before any save:
\*   "return"    return v at once (v = None: no results)
\*   "found"     save str(bpm), then return it
\*   "fallback"  go on to get_bpm_from_tunebat_web_scraping
TunebatApiDecision(resp, artist, track) ==
  IF resp.kind = "ok" /\ resp.body = "items"
  THEN IF resp.items = <<>> THEN [kind |-> "return", v |-> None]
       ELSE IF BestMatch(resp.items, artist, track).hasB
       THEN [kind |-> "found", v |-> PyStr(BestMatch(resp.items, artist, track).b)]
       ELSE [kind |-> "fallback", v |-> None]
  ELSE [kind |-> "fallback", v |-> None]

(* ---------------------------------------------------------------------- *)
(* The environment: command lines and HTTP responses                       *)
(* ---------------------------------------------------------------------- *)

\* the (artist, track) arguments given on the command line: two spellings of
\* one pair whose slugs are equal, and a pair with a space in the track
Queries ==
  { << <<"a", "!">>, <<"A">> >>,
    << <<"A", "!">>, <<"a">> >>,
    << <<"a", "!">>, <<"B", " ", "b">> >> }

T117 == <<"1", "1", "7">>
T120 == <<"1", "2", "0">>

\* pages of songbpm.com
SongbpmPages ==
  { << Leaf({}, <<"n", "o">>) >>,
    << Leaf({}, <<"x", " ">> \o T117 \o <<" ", "B", "P", "M">>) >>,
    << Leaf({"bpm-value"}, T120 \o <<" ", "B", "P", "M">>) >>,
    << Leaf({"h1+div"}, <<"n", "o">>),
       Leaf({"song-metrics"}, LitTempoBPM \o <<":", " ">> \o T117) >>,
    << Script(<<"{", "}">>, BadJson), Script(<<"{", "}">>, ObjectJson(TRUE, IntV(T120))) >>,
    << Script(<<"{", "}">>, ObjectJson(TRUE, IntV(<<"0">>))) >>,
    << Script(<<"{", "}">>, ObjectJson(TRUE, None)), Leaf({}, T117 \o <<"b", "p", "m">>) >>,
    << Script(<<"{", "}">>, ObjectJson(TRUE, List)) >>,
    << Script(<<"7">>, ScalarJson), Leaf({}, T117 \o <<"b", "p", "m">>) >> }

\* pages of tunebat.com
TunebatPages ==
  { << Leaf({}, <<"n", "o">>) >>,
    << Parent({"row", "attribute"}, <<"K", "e", "y">>,
              <<Leaf({"attribute-value"}, <<"C">>)>>),
       Parent({"row", "attribute"}, <<"B", "P", "M">>,
              <<Leaf({"attribute-value"}, <<" ">> \o T120 \o <<" ">>)>>) >>,
    << Parent({"row", "attribute"}, <<"B", "P", "M">>,
              <<Leaf({"attribute-value"}, <<" ">>)>>) >>,
    << Leaf({"bpm"}, <<"3", "0", "0">>), Leaf({"tempo"}, T117) >>,
    << Leaf({}, <<"B", "P", "M", ":", " ">> \o T120) >> }

\* what the methods of get_bpm_from_tunebat_web_scraping find on a page:
\* m1 by Method 1, m23 by Method 2 or else Method 3
TunebatFinds(p) ==
  [m1 |-> TunebatMethod1(p),
   m23 |-> IF TunebatMethod2(p).kind = "value" THEN TunebatMethod2(p)
           ELSE TunebatMethod3(p)]

NoFinds == [m1 |-> NotFound, m23 |-> NotFound]

\* responses of tunebat.com: the request raises, answers another status, or
\* answers 200 with a page (dumpOk: tunebat_response.html could be written);
\* finds is what the methods find on the page
TunebatResponses ==
  { [kind |-> "exc", code |-> 0, page |-> <<>>, dumpOk |-> TRUE, finds |-> NoFinds],
    [kind |-> "status", code |-> 404, page |-> <<>>, dumpOk |-> TRUE, finds |-> NoFinds] }
  \cup { [kind |-> "ok", code |-> 200, page |-> p, dumpOk |-> ok, finds |-> TunebatFinds(p)] :
           p \in TunebatPages, ok \in BOOLEAN }

\* responses of songbpm.com, with what the methods find on the page
SongbpmResponses ==
  { [kind |-> "exc", code |-> 0, page |-> <<>>, finds |-> NotFound],
    [kind |-> "status", code |-> 404, page |-> <<>>, finds |-> NotFound] }
  \cup { [kind |-> "ok", code |-> 200, page |-> p, finds |-> SongbpmExtract(p)] :
           p \in SongbpmPages }

\* item lists of the API
ItemOther == Item(<< <<"z">> >>, <<"z">>, TRUE, IntV(T120))
ItemMatch == Item(<< <<"z">>, <<"A", "!">> >>, <<"B", " ", "b">>, TRUE, IntV(T117))
ItemNoBpm == Item(<< <<"z">> >>, <<"z">>, FALSE, None)
ItemEmptyBpm == Item(<< <<"z">> >>, <<"z">>, TRUE, StrV(<<>>))

ApiItemLists ==
  { <<>>, <<ItemOther>>, <<ItemOther, ItemMatch>>, <<ItemNoBpm>>, <<ItemEmptyBpm>> }

\* responses of the API: body is "invalid" (JSONDecodeError), "shape" (no
\* data.items), "malformed" (another exception while reading it) or "items"
ApiResponses ==
  { [kind |-> "exc", code |-> 0, body |-> "", items |-> <<>>],
    [kind |-> "status", code |-> 429, body |-> "", items |-> <<>>],
    [kind |-> "status", code |-> 500, body |-> "", items |-> <<>>],
    [kind |-> "ok", code |-> 200, body |-> "invalid", items |-> <<>>],
    [kind |-> "ok", code |-> 200, body |-> "shape", items |-> <<>>],
    [kind |-> "ok", code |-> 200, body |-> "malformed", items |-> <<>>] }
  \cup { [kind |-> "ok", code |-> 200, body |-> "items", items |-> its] :
           its \in ApiItemLists }

(* ---------------------------------------------------------------------- *)
(* The adapters on one response, with the save                             *)
(* ---------------------------------------------------------------------- *)

\* the record of one save_bpm_to_db call
SaveCall(v, source, sv) ==
  [called |-> TRUE, v |-> v, source |-> source, committed |-> sv.committed]
NoSaveCall == [called |-> FALSE, v |-> None, source |-> "", committed |-> FALSE]

\* get_bpm_from_tunebat on the API response: out.kind is "return" or "fallback"
TunebatApiResponse(d, artist, track, resp, now, fault) ==
  LET dec == TunebatApiDecision(resp, artist, track)
      sv == SaveBpmToDb(d, artist, track, dec.v, "tunebat_api", now, fault)
  IN  IF dec.kind = "found"
      THEN [db |-> sv.db, save |-> SaveCall(dec.v, "tunebat_api", sv),
            out |-> IF sv.raised THEN [kind |-> "fallback", v |-> None]
                    ELSE [kind |-> "return", v |-> dec.v]]
      ELSE [db |-> d, save |-> NoSaveCall, out |-> dec]

\* the loop of get_bpm_from_tunebat_web_scraping with a return in its except
\* and else branches: a failed request ends the function with None
TunebatWebResponseGivesUp(d, artist, track, resp, now, f1, f2) ==
  IF resp.kind # "ok" THEN [db |-> d, save |-> NoSaveCall, out |-> Found(None)]
  ELSE IF ~resp.dumpOk THEN [db |-> d, save |-> NoSaveCall, out |-> NotFound]
  ELSE
  LET m1 == resp.finds.m1
      s1 == SaveBpmToDb(d, artist, track, m1.v, "tunebat_web", now, f1)
      tried1 == m1.kind = "value"
      d1 == IF tried1 THEN s1.db ELSE d
      f == IF tried1 THEN f2 ELSE f1
      call1 == IF tried1 THEN SaveCall(m1.v, "tunebat_web", s1) ELSE NoSaveCall
      m == resp.finds.m23
      sv == SaveBpmToDb(d1, artist, track, m.v, "tunebat_web", now, f)
  IN  IF tried1 /\ ~s1.raised THEN [db |-> s1.db, save |-> call1, out |-> m1]
      ELSE IF m.kind = "value"
      THEN [db |-> sv.db, save |-> SaveCall(m.v, "tunebat_web", sv),
            out |-> IF sv.raised THEN NotFound ELSE m]
      ELSE [db |-> d1, save |-> call1, out |-> NotFound]

\* one pass of the loop of get_bpm_from_tunebat_web_scraping: out is Found(v)
\* when the function returns v, NotFound when the loop goes on
TunebatWebResponse(d, artist, track, resp, now, f1, f2) ==
  IF resp.kind # "ok" \/ ~resp.dumpOk THEN [db |-> d, save |-> NoSaveCall, out |-> NotFound]
  ELSE
  LET m1 == resp.finds.m1
      s1 == SaveBpmToDb(d, artist, track, m1.v, "tunebat_web", now, f1)
      tried1 == m1.kind = "value"
      d1 == IF tried1 THEN s1.db ELSE d
      f == IF tried1 THEN f2 ELSE f1
      call1 == IF tried1 THEN SaveCall(m1.v, "tunebat_web", s1) ELSE NoSaveCall
      m == resp.finds.m23
      sv == SaveBpmToDb(d1, artist, track, m.v, "tunebat_web", now, f)
  IN  IF tried1 /\ ~s1.raised THEN [db |-> s1.db, save |-> call1, out |-> m1]
      ELSE IF m.kind = "value"
      THEN [db |-> sv.db, save |-> SaveCall(m.v, "tunebat_web", sv),
            out |-> IF sv.raised THEN NotFound ELSE m]
      ELSE [db |-> d1, save |-> call1, out |-> NotFound]

\* the number of save_bpm_to_db calls a response of tunebat.com can lead to
TunebatSaves(resp) ==
  IF resp.kind # "ok" \/ ~resp.dumpOk THEN 0
  ELSE (IF resp.finds.m1.kind = "value" THEN 1 ELSE 0)
       + (IF resp.finds.m23.kind = "value" THEN 1 ELSE 0)

\* get_bpm_from_songbpm saving under the tag of the other scraper
SongbpmResponseWrongTag(d, artist, track, resp, now, fault) ==
  LET m == IF resp.kind = "ok" THEN resp.finds ELSE NotFound
      sv == SaveBpmToDb(d, artist, track, m.v, "tunebat_web", now, fault)
  IN  IF m.kind = "value"
      THEN [db |-> sv.db, save |-> SaveCall(m.v, "tunebat_web", sv),
            out |-> IF sv.raised THEN NotFound ELSE m]
      ELSE [db |-> d, save |-> NoSaveCall, out |-> NotFound]

\* one pass of the loop of get_bpm_from_songbpm
SongbpmResponse(d, artist, track, resp, now, fault) ==
  LET m == IF resp.kind = "ok" THEN resp.finds ELSE NotFound
      sv == SaveBpmToDb(d, artist, track, m.v, "songbpm", now, fault)
  IN  IF m.kind = "value"
      THEN [db |-> sv.db, save |-> SaveCall(m.v, "songbpm", sv),
            out |-> IF sv.raised THEN NotFound ELSE m]
      ELSE [db |-> d, save |-> NoSaveCall, out |-> NotFound]

(* ---------------------------------------------------------------------- *)
(* The program                                                             *)
(* ---------------------------------------------------------------------- *)

VARIABLES
  db,        \* the file known_bpms.sqlite
  now,       \* int(time.time()), the number of the run
  pc,        \* where main is: "idle", "check", "api", "web", "songbpm", "exit"
  artist,    \* sys.argv[1]
  track,     \* sys.argv[2]
  bpm,       \* the variable bpm of main
  idx,       \* the position of "for url in urls" (1-based)
  reqs,      \* the targets of the requests.get calls of this run, in order
  ret,       \* what each source returned in this run
  lastSave,  \* the latest save_bpm_to_db call of this run
  rows0,     \* the rows of the database when this run started
  outcome,   \* how the latest run ended
  procs,     \* concurrent processes inside save_bpm_to_db, see SpecConcurrent
  wlock,     \* the process that holds the write lock of the database, 0 when free
  finished,  \* the processes whose save_bpm_to_db has returned, in that order
  probe,     \* a function applied on its own to an input, see SpecFunctions
  last       \* the latest request of this run and its answer, see SpecTraced

\* the variables that main leaves alone
aux == <<procs, wlock, finished, probe>>

vars == <<db, now, pc, artist, track, bpm, idx, reqs, ret, lastSave, rows0, outcome,
          procs, wlock, finished, probe, last>>

\* the processes that write concurrently
Procs == {1, 2}

\* a process that has not called save_bpm_to_db
NoCall ==
  [pc |-> "start", artist |-> <<>>, track |-> <<>>, bpm |-> None, source |-> "",
   existing |-> 0, pending |-> NoDatabase, raised |-> FALSE]

\* no function applied yet
NoProbe == [fn |-> "none"]

\* a source that has not returned in this run
Uncalled == [k |-> "uncalled", s |-> <<>>]

\* the record of a request:
\*   step   "api", "web" or "songbpm"; idx the position of the candidate
\*   kind, code, body   the answer, as in the response sets
\*   api    how the API request of this call of get_bpm_from_tunebat ended
\*   found  what the code finds in the answer, before it saves
\*   out    the value the adapter returned on this answer, Uncalled when it
\*          went on to its next request
NoRequest ==
  [step |-> "none", idx |-> 0, kind |-> "", code |-> 0, body |-> "", api |-> "",
   found |-> NotFound, out |-> Uncalled]

\* requests are not recorded
Untraced == [NoRequest EXCEPT !.step = "off"]

\* the record kept of request r
Record(r) == IF last = Untraced THEN Untraced ELSE r

\* the number of runs of a behaviour
RunLimit == IF last = Untraced THEN MaxRuns ELSE MaxTracedRuns

\* how the API request ended, for the record: the exception, the status or
\* the kind of body
ApiEnd(resp) ==
  CASE resp.kind = "exc" -> "exc"
    [] resp.kind = "status" -> IF resp.code = 429 THEN "429" ELSE "status"
    [] OTHER -> resp.body

NoReturns == [cache |-> Uncalled, tunebat |-> Uncalled, songbpm |-> Uncalled]

Init ==
  /\ db = NoDatabase
  /\ now = 0
  /\ pc = "idle"
  /\ artist = <<>>
  /\ track = <<>>
  /\ bpm = None
  /\ idx = 0
  /\ reqs = <<>>
  /\ ret = NoReturns
  /\ lastSave = NoSaveCall
  /\ rows0 = {}
  /\ outcome = "none"
  /\ procs = [p \in Procs |-> NoCall]
  /\ wlock = 0
  /\ finished = <<>>
  /\ probe = NoProbe
  /\ last = Untraced

\* main, lines 410-417, with both arguments
Start(a, t) ==
  /\ pc = "idle"
  /\ now < RunLimit
  /\ pc' = "check"
  /\ now' = now + 1
  /\ artist' = a
  /\ track' = t
  /\ bpm' = None
  /\ idx' = 0
  /\ reqs' = <<>>
  /\ ret' = NoReturns
  /\ lastSave' = NoSaveCall
  /\ rows0' = db.rows
  /\ outcome' = "none"
  /\ last' = Record(NoRequest)
  /\ UNCHANGED db
  /\ UNCHANGED aux

\* main, lines 410-412: fewer than two arguments
Usage ==
  /\ pc = "idle"
  /\ now < RunLimit
  /\ now' = now + 1
  /\ artist' = <<>>
  /\ track' = <<>>
  /\ bpm' = None
  /\ idx' = 0
  /\ reqs' = <<>>
  /\ ret' = NoReturns
  /\ lastSave' = NoSaveCall
  /\ rows0' = db.rows
  /\ outcome' = "USAGE"
  /\ UNCHANGED <<db, pc, last>>
  /\ UNCHANGED aux

\* main, lines 420-424: bpm = check_known_bpms(artist, track)
CheckCache ==
  /\ pc = "check"
  /\ \E fault \in FaultsOn(db, TRUE) :
       LET r == CheckKnownBpms(db, artist, track, fault)
       IN  /\ db' = r.db
           /\ IF r.raised
              THEN /\ pc' = "idle"
                   /\ outcome' = "CRASH"
                   /\ UNCHANGED <<bpm, ret>>
              ELSE /\ bpm' = r.result
                   /\ ret' = [ret EXCEPT !.cache = r.result]
                   /\ pc' = IF Truthy(r.result) THEN "exit" ELSE "api"
                   /\ UNCHANGED outcome
  /\ UNCHANGED <<now, artist, track, idx, reqs, lastSave, rows0, last>>
  /\ UNCHANGED aux

\* get_bpm_from_tunebat returns v to main, lines 424-428
TunebatReturns(v) ==
  /\ bpm' = v
  /\ ret' = [ret EXCEPT !.tunebat = v]
  /\ pc' = IF Truthy(v) THEN "exit" ELSE "songbpm"
  /\ idx' = 1

\* get_bpm_from_tunebat, lines 145-226: the API request
TunebatApi ==
  /\ pc = "api"
  /\ reqs' = Append(reqs, ApiUrl(artist, track))
  /\ \E resp \in ApiResponses :
     \E fault \in FaultsOn(db, TunebatApiDecision(resp, artist, track).kind = "found") :
       LET r == TunebatApiResponse(db, artist, track, resp, now, fault)
       IN  /\ db' = r.db
           /\ lastSave' = IF r.save.called THEN r.save ELSE lastSave
           /\ last' = Record([step |-> "api", idx |-> 1, kind |-> resp.kind,
                              code |-> resp.code, body |-> resp.body, api |-> ApiEnd(resp),
                              found |-> TunebatApiDecision(resp, artist, track),
                              out |-> IF r.out.kind = "return" THEN r.out.v ELSE Uncalled])
           /\ IF r.out.kind = "return"
              THEN TunebatReturns(r.out.v)
              ELSE /\ pc' = "web"
                   /\ idx' = 1
                   /\ UNCHANGED <<bpm, ret>>
  /\ UNCHANGED <<now, artist, track, rows0, outcome>>
  /\ UNCHANGED aux

\* get_bpm_from_tunebat_web_scraping, lines 258-348: one candidate URL
TunebatWeb ==
  /\ pc = "web"
  /\ reqs' = Append(reqs, TunebatUrls(artist, track)[idx])
  /\ \E resp \in TunebatResponses :
     \E f1 \in FaultsOn(db, TunebatSaves(resp) >= 1) :
     \E f2 \in FaultsOn(db, TunebatSaves(resp) >= 2 /\ f1 \in {"open_error", "create_error"}) :
       LET r == TunebatWebResponse(db, artist, track, resp, now, f1, f2)
           n == Len(TunebatUrls(artist, track))
       IN  /\ db' = r.db
           /\ lastSave' = IF r.save.called THEN r.save ELSE lastSave
           /\ last' = Record([step |-> "web", idx |-> idx, kind |-> resp.kind,
                              code |-> resp.code,
                              body |-> IF resp.kind # "ok" THEN ""
                                       ELSE IF resp.dumpOk THEN "page" ELSE "nodump",
                              api |-> last.api,
                              found |-> IF resp.finds.m1.kind = "value" THEN resp.finds.m1
                                        ELSE resp.finds.m23,
                              out |-> IF r.out.kind = "value" THEN r.out.v
                                      ELSE IF idx = n THEN None ELSE Uncalled])
           /\ IF r.out.kind = "value"
              THEN TunebatReturns(r.out.v)
              ELSE IF idx = Len(TunebatUrls(artist, track))
              THEN TunebatReturns(None)
              ELSE /\ idx' = idx + 1
                   /\ UNCHANGED <<pc, bpm, ret>>
  /\ UNCHANGED <<now, artist, track, rows0, outcome>>
  /\ UNCHANGED aux

\* get_bpm_from_songbpm returns v to main, line 428
SongbpmReturns(v) ==
  /\ bpm' = v
  /\ ret' = [ret EXCEPT !.songbpm = v]
  /\ pc' = "exit"
  /\ idx' = 0

\* get_bpm_from_songbpm, lines 74-143: one candidate URL
Songbpm ==
  /\ pc = "songbpm"
  /\ reqs' = Append(reqs, SongbpmUrls(artist, track)[idx])
  /\ \E resp \in SongbpmResponses :
     \E fault \in FaultsOn(db, resp.kind = "ok" /\ resp.finds.kind = "value") :
       LET r == SongbpmResponse(db, artist, track, resp, now, fault)
           n == Len(SongbpmUrls(artist, track))
       IN  /\ db' = r.db
           /\ lastSave' = IF r.save.called THEN r.save ELSE lastSave
           /\ last' = Record([step |-> "songbpm", idx |-> idx, kind |-> resp.kind,
                              code |-> resp.code,
                              body |-> IF resp.kind = "ok" THEN "page" ELSE "",
                              api |-> "", found |-> resp.finds,
                              out |-> IF r.out.kind = "value" THEN r.out.v
                                      ELSE IF idx = n THEN None ELSE Uncalled])
           /\ IF r.out.kind = "value"
              THEN SongbpmReturns(r.out.v)
              ELSE IF idx = Len(SongbpmUrls(artist, track))
              THEN SongbpmReturns(None)
              ELSE /\ idx' = idx + 1
                   /\ UNCHANGED <<pc, bpm, ret>>
  /\ UNCHANGED <<now, artist, track, rows0, outcome>>
  /\ UNCHANGED aux

\* the terminal of the run: which source gave the value that main prints
Terminal(v, r) ==
  IF ~Truthy(v) THEN "MISS"
  ELSE IF r.songbpm # Uncalled THEN "SCRAPE_SUCCESS"
  ELSE IF r.tunebat # Uncalled THEN "API_SUCCESS"
  ELSE "HIT"

\* main, lines 430-434: print the BPM, or "Could not find" and exit(1)
Exit ==
  /\ pc = "exit"
  /\ pc' = "idle"
  /\ outcome' = Terminal(bpm, ret)
  /\ last' = Record(NoRequest)
  /\ UNCHANGED <<db, now, artist, track, bpm, idx, reqs, ret, lastSave, rows0>>
  /\ UNCHANGED aux

Next ==
  \/ \E q \in Queries : Start(q[1], q[2])
  \/ Usage
  \/ CheckCache
  \/ TunebatApi
  \/ TunebatWeb
  \/ Songbpm
  \/ Exit

Spec == Init /\ [][Next]_vars

\* the lookups with the latest request of the run on record
InitTraced ==
  /\ db = NoDatabase
  /\ now = 0
  /\ pc = "idle"
  /\ artist = <<>>
  /\ track = <<>>
  /\ bpm = None
  /\ idx = 0
  /\ reqs = <<>>
  /\ ret = NoReturns
  /\ lastSave = NoSaveCall
  /\ rows0 = {}
  /\ outcome = "none"
  /\ procs = [p \in Procs |-> NoCall]
  /\ wlock = 0
  /\ finished = <<>>
  /\ probe = NoProbe
  /\ last = NoRequest

SpecTraced == InitTraced /\ [][Next]_vars

(* ---------------------------------------------------------------------- *)
(* save_bpm_to_db statement by statement, run by concurrent processes      *)
(* ---------------------------------------------------------------------- *)

\* what main leaves to the concurrent processes: everything but the database
mainVars ==
  <<now, pc, artist, track, bpm, idx, reqs, ret, lastSave, rows0, outcome, probe, last>>

\* the values and the tags the processes save
SavedValues == {T117, T120}
SavedSources == {"tunebat_api", "songbpm"}

\* UPDATE known_bpms SET bpm = ?, source = ?, timestamp = ? WHERE id = ?
UpdateById(d, id, v, source, time) ==
  [d EXCEPT !.rows =
     {IF r.id = id THEN [r EXCEPT !.bpm = v.s, !.source = source, !.timestamp = time] ELSE r :
        r \in d.rows}]

\* INSERT INTO known_bpms (artist, track, bpm, source, timestamp)
\* VALUES (artist.lower(), track.lower(), bpm, source, current_time)
InsertRow(d, a, t, v, source, time) ==
  [d EXCEPT !.rows = d.rows \cup
              {[id |-> d.nextId, artist |-> Lower(a), track |-> Lower(t),
                bpm |-> v.s, source |-> source, timestamp |-> time]},
            !.nextId = d.nextId + 1]

\* UNIQUE(artist, track): a row with these columns is stored
KeyTaken(d, a, t) ==
  \E r \in d.rows : r.artist = Lower(a) /\ r.track = Lower(t)

\* save_bpm_to_db has returned or raised in process p
Finish(p, raised) ==
  /\ procs' = [procs EXCEPT ![p].pc = "done", ![p].raised = raised]
  /\ finished' = Append(finished, p)

\* a process calls save_bpm_to_db(artist, track, bpm, source)
Call(p) ==
  /\ procs[p].pc = "start"
  /\ \E q \in Queries, v \in SavedValues, src \in SavedSources :
       procs' = [procs EXCEPT ![p] =
                   [NoCall EXCEPT !.pc = "exists", !.artist = q[1], !.track = q[2],
                                  !.bpm = StrV(v), !.source = src]]
  /\ UNCHANGED <<db, wlock, finished, mainVars>>

\* init_database, line 25: os.path.exists(DB_FILE)
WExists(p) ==
  /\ procs[p].pc = "exists"
  /\ procs' = [procs EXCEPT ![p].pc = IF db.file THEN "select" ELSE "create"]
  /\ UNCHANGED <<db, wlock, finished, mainVars>>

\* init_database, lines 27-44: connect creates the file, CREATE TABLE raises
\* when another process has created the table in the meantime
WCreate(p) ==
  /\ procs[p].pc = "create"
  /\ wlock = 0
  /\ IF db.table
     THEN Finish(p, TRUE) /\ UNCHANGED db
     ELSE /\ db' = [db EXCEPT !.file = TRUE, !.table = TRUE]
          /\ procs' = [procs EXCEPT ![p].pc = "select"]
          /\ UNCHANGED finished
  /\ UNCHANGED <<wlock, mainVars>>

\* save_bpm_to_db, lines 380-384: SELECT id ..., fetchone (reads what is committed)
WSelect(p) ==
  /\ procs[p].pc = "select"
  /\ LET found == SelectKey(db.rows, procs[p].artist, procs[p].track)
     IN  procs' = [procs EXCEPT ![p].pc = "write",
                                ![p].existing = IF found # {} THEN FetchOne(found).id ELSE 0]
  /\ UNCHANGED <<db, wlock, finished, mainVars>>

\* save_bpm_to_db, lines 388-401: UPDATE or INSERT, which takes the write lock;
\* an INSERT of a stored (artist, track) raises sqlite3.IntegrityError
WWrite(p) ==
  /\ procs[p].pc = "write"
  /\ wlock = 0
  /\ LET me == procs[p]
     IN  IF me.existing # 0
         THEN /\ procs' = [procs EXCEPT ![p].pc = "commit",
                             ![p].pending = UpdateById(db, me.existing, me.bpm, me.source, now)]
              /\ wlock' = p
              /\ UNCHANGED finished
         ELSE IF KeyTaken(db, me.artist, me.track)
         THEN Finish(p, FALSE) /\ UNCHANGED wlock
         ELSE /\ procs' = [procs EXCEPT ![p].pc = "commit",
                             ![p].pending = InsertRow(db, me.artist, me.track, me.bpm,
                                                      me.source, now)]
              /\ wlock' = p
              /\ UNCHANGED finished
  /\ UNCHANGED <<db, mainVars>>

\* save_bpm_to_db, lines 388-405: the other process holds the write lock for
\* longer than the timeout: sqlite3.OperationalError (database is locked)
WBusy(p) ==
  /\ procs[p].pc = "write"
  /\ wlock \notin {0, p}
  /\ Finish(p, FALSE)
  /\ UNCHANGED <<db, wlock, mainVars>>

\* save_bpm_to_db, lines 403-407: commit, close
WCommit(p) ==
  /\ procs[p].pc = "commit"
  /\ db' = procs[p].pending
  /\ wlock' = 0
  /\ Finish(p, FALSE)
  /\ UNCHANGED mainVars

NextConcurrent ==
  \E p \in Procs :
    \/ Call(p)
    \/ WExists(p)
    \/ WCreate(p)
    \/ WSelect(p)
    \/ WWrite(p)
    \/ WBusy(p)
    \/ WCommit(p)

SpecConcurrent == Init /\ [][NextConcurrent]_vars

(* ---------------------------------------------------------------------- *)
(* The functions of the program applied on their own                       *)
(* ---------------------------------------------------------------------- *)

\* Each behaviour applies one of the pure functions to one input, or a
\* sequence of database operations to the database file.

\* what the probes leave alone
probeFrame == <<now, pc, artist, track, bpm, idx, reqs, ret, lastSave, rows0, outcome,
                procs, wlock, finished, last>>

\* items of data.items: besides those above, one that matches the third
\* query in another spelling and one that matches its artist only
ItemMatchLower == Item(<< <<"a", "!">> >>, <<"b", " ", "B">>, TRUE, StrV(T120))
ItemArtistOnly == Item(<< <<"a", "!">> >>, <<"z">>, TRUE, IntV(<<"9", "9">>))

ProbeItems == {ItemOther, ItemMatch, ItemNoBpm, ItemEmptyBpm, ItemMatchLower, ItemArtistOnly}

\* the non-empty item lists of at most MaxItems items
ProbeItemLists == UNION {[1..n -> ProbeItems] : n \in 1..MaxItems}

\* pages of tunebat.com besides those above: a BPM row whose value is no
\* tempo, and a BPM row without a value element next to a .bpm element
TunebatProbePages ==
  TunebatPages \cup
  { << Parent({"row", "attribute"}, <<"B", "P", "M">>,
              <<Leaf({"attribute-value"}, <<"3", "0", "0">>)>>) >>,
    << Parent({"row", "attribute"}, <<"B", "P", "M">>, <<Leaf({}, T120)>>),
       Leaf({"bpm"}, T117) >> }

\* get_bpm_from_tunebat, lines 172-198, on a 200 response with items
ProbeApi ==
  /\ probe = NoProbe
  /\ \E q \in Queries, items \in ProbeItemLists :
       probe' = [fn |-> "api", artist |-> q[1], track |-> q[2], items |-> items,
                 chosen |-> BestMatch(items, q[1], q[2]),
                 out |-> TunebatApiDecision(
                           [kind |-> "ok", code |-> 200, body |-> "items", items |-> items],
                           q[1], q[2])]
  /\ UNCHANGED <<db, probeFrame>>

\* get_bpm_from_songbpm, lines 83-135, on the body of one page
ProbeSongbpm ==
  /\ probe = NoProbe
  /\ \E page \in SongbpmPages :
       probe' = [fn |-> "songbpm", page |-> page, out |-> SongbpmExtract(page)]
  /\ UNCHANGED <<db, probeFrame>>

\* get_bpm_from_tunebat_web_scraping, lines 279-339, on the body of one page
ProbeTunebat ==
  /\ probe = NoProbe
  /\ \E page \in TunebatProbePages :
       probe' = [fn |-> "tunebat", page |-> page,
                 m1 |-> TunebatMethod1(page), m2 |-> TunebatMethod2(page),
                 m3 |-> TunebatMethod3(page), out |-> TunebatFinds(page)]
  /\ UNCHANGED <<db, probeFrame>>

\* init_database() on the database as it is
ProbeInit ==
  /\ probe.fn \in {"none", "init", "save"}
  /\ \E fault \in FaultsOn(db, TRUE) :
       LET r == InitDatabase(db, fault)
       IN  /\ db' = r.db
           /\ probe' = [fn |-> "init", before |-> db, raised |-> r.raised, after |-> r.db]
  /\ UNCHANGED probeFrame

\* save_bpm_to_db(artist, track, bpm, source) on the database as it is
ProbeSave ==
  /\ probe.fn \in {"none", "init", "save"}
  /\ \E q \in Queries, v \in SavedValues, src \in SavedSources :
       LET r == SaveBpmToDb(db, q[1], q[2], StrV(v), src, now, "ok")
       IN  /\ db' = r.db
           /\ probe' = [fn |-> "save", before |-> db, raised |-> r.raised, after |-> r.db]
  /\ UNCHANGED probeFrame

NextFunctions ==
  \/ ProbeApi
  \/ ProbeSongbpm
  \/ ProbeTunebat
  \/ ProbeInit
  \/ ProbeSave

SpecFunctions == Init /\ [][NextFunctions]_vars

(* ---------------------------------------------------------------------- *)
(* Properties                                                              *)
(* ---------------------------------------------------------------------- *)

\* the latest run was a lookup and has ended
Ended == pc = "idle" /\ outcome \notin {"none", "USAGE"}

\* the rows stored for the (artist, track) of the run
KeyRows(rows) == SelectKey(rows, artist, track)

\* the pair of the run had a record when the run started
Cached == KeyRows(rows0) # {}

\* C1: a lookup of a pair that was upserted before, in any spelling, returns
\* the stored BPM and makes no HTTP request, whatever BPM is stored (stated
\* for the runs whose cache read did not raise)
C1_CachedLookupWithoutNetwork ==
  (Cached /\ ret.cache # Uncalled) =>
    /\ reqs = <<>>
    /\ ret.cache = StrV(FetchOne(KeyRows(rows0)).bpm)
    /\ Ended => (outcome = "HIT" /\ bpm = ret.cache)

\* C2: there is at most one record per (lower(artist), lower(track))
C2_OneRecordPerKey ==
  \A r1 \in db.rows, r2 \in db.rows :
    (Lower(r1.artist) = Lower(r2.artist) /\ Lower(r1.track) = Lower(r2.track)) => r1 = r2

\* C2 witness: a record written in a second run under another spelling of the
\* artist than the one stored
C2_Witness ==
  /\ Cached
  /\ lastSave.committed
  /\ \E r \in KeyRows(db.rows) : r.timestamp = now /\ r.artist # artist /\ now > 1

\* C3: once save_bpm_to_db has committed, the pair has exactly one record and
\* it holds the bpm and the source of that latest call
C3_LastWriteWins ==
  lastSave.committed =>
    /\ Cardinality(KeyRows(db.rows)) = 1
    /\ \A r \in KeyRows(db.rows) : r.bpm = lastSave.v.s /\ r.source = lastSave.source

\* C3 witness: the pair was stored with another bpm and another source, and a
\* second upsert has been committed
C3_Witness ==
  /\ lastSave.committed
  /\ \E r \in KeyRows(rows0) : r.bpm # lastSave.v.s /\ r.source # lastSave.source

\* C4: the API adapter runs only after a cache miss, songbpm.com only after
\* the API adapter returned no value
C4_SourcesInOrder ==
  /\ (pc \in {"api", "web"} \/ ret.tunebat # Uncalled) => ret.cache = None
  /\ (pc = "songbpm" \/ ret.songbpm # Uncalled) => ret.tunebat = None

\* the lookup missed the cache and prints a value that an adapter returned
AdapterValue ==
  /\ pc \in {"exit", "idle"}
  /\ Truthy(bpm)
  /\ ret.cache # Uncalled
  /\ ~Truthy(ret.cache)

\* the source tag of the adapter that returned the value of the lookup
AdapterTag ==
  IF ret.songbpm # Uncalled THEN "songbpm"
  ELSE IF Len(reqs) = 1 THEN "tunebat_api"
  ELSE "tunebat_web"

\* the cache has the record of the value the lookup returned
ValueRecorded ==
  /\ KeyRows(db.rows) # {}
  /\ \A r \in KeyRows(db.rows) : r.bpm = bpm.s /\ r.source = AdapterTag

C6_OnlyAdapterValuesWrite ==
  /\ (Ended /\ outcome \in {"HIT", "MISS"}) => db.rows = rows0
  /\ \A r \in rows0 : \E q \in db.rows : q.id = r.id

\* C7: no source returns, and no record stores, an empty string as BPM
C7_NeverEmptyString ==
  /\ \A r \in db.rows : r.bpm # <<>>
  /\ StrV(<<>>) \notin {ret.cache, ret.tunebat, ret.songbpm, bpm}

\* C8: every lookup started with both arguments ends in one of HIT,
\* API_SUCCESS, SCRAPE_SUCCESS, MISS
C8_EndsInATerminal ==
  Ended => outcome \in {"HIT", "API_SUCCESS", "SCRAPE_SUCCESS", "MISS"}

\* C9 as stated: at most 6 requests in a lookup, no URL requested twice
C9_AtMostSixDistinct ==
  /\ Len(reqs) <= 6
  /\ \A i \in 1..Len(reqs), j \in 1..Len(reqs) : i # j => reqs[i] # reqs[j]

\* C9 as amended: at most 7 requests in a lookup: the API query at most once,
\* then the candidates of tunebat.com in list order, then those of
\* songbpm.com in list order, each position of a list at most once
C9_AtMostSevenInOrder ==
  /\ Len(reqs) <= 7
  /\ \E a \in 0..1, w \in 0..Len(TunebatUrls(artist, track)),
        g \in 0..Len(SongbpmUrls(artist, track)) :
       reqs = SubSeq(<<ApiUrl(artist, track)>>, 1, a)
                \o SubSeq(TunebatUrls(artist, track), 1, w)
                \o SubSeq(SongbpmUrls(artist, track), 1, g)

\* C9 witness: seven requests, the second and third to the same URL
C9_Witness == Len(reqs) = 7 /\ reqs[2] = reqs[3]

\* C10: a storage failure while reading the cache does not abort the lookup
C10_ReadFailureIsAMiss == outcome # "CRASH"

\* C11: a storage failure inside save_bpm_to_db does not change what the
\* adapter returns: an adapter that has called save_bpm_to_db with a value
\* returns that value
C11_WriteFailureKeepsOutcome ==
  lastSave.called =>
    IF lastSave.source = "songbpm" THEN ret.songbpm = lastSave.v
    ELSE ret.tunebat = lastSave.v

\* both processes have run the select-then-insert/update of save_bpm_to_db
\* to its end, for the same case-folded (artist, track)
BothSavedSameKey ==
  /\ \A p \in Procs : procs[p].pc = "done" /\ ~procs[p].raised
  /\ Lower(procs[1].artist) = Lower(procs[2].artist)
  /\ Lower(procs[1].track) = Lower(procs[2].track)

\* C12: when two processes have upserted the same key concurrently, the key
\* has exactly one record and it holds the value of the process that
\* finished last
C12_LastWriterWins ==
  BothSavedSameKey =>
    LET w == procs[finished[Len(finished)]]
        rows == SelectKey(db.rows, w.artist, w.track)
    IN  /\ Cardinality(rows) = 1
        /\ \A r \in rows : r.bpm = w.bpm.s /\ r.source = w.source

\* a and b are equal but for the case of their letters
SameIgnoringCase(a, b) ==
  /\ Len(a) = Len(b)
  /\ \A i \in 1..Len(a) : LowerChar(a[i]) = LowerChar(b[i])

\* the item has the queried artist in its artist list and the queried title
MatchesQuery(it, a, t) ==
  /\ \E j \in 1..Len(it.as) : SameIgnoringCase(it.as[j], a)
  /\ SameIgnoringCase(it.n, t)

\* the position the claim gives the chosen item: the first one that matches
\* the query, the first one of the list when none does
ClaimedChoice(items, a, t) ==
  LET hits == {i \in 1..Len(items) : MatchesQuery(items[i], a, t)}
  IN  IF hits = {} THEN 1 ELSE CHOOSE i \in hits : \A j \in hits : i <= j

\* C13: the API adapter chooses the first item, unless some item matches the
\* queried artist and title ignoring case: then the first such item,
\* whatever its position; the BPM it returns is the tempo field of that item
C13_ExactMatchOverridesFirst ==
  probe.fn = "api" =>
    LET it == probe.items[ClaimedChoice(probe.items, probe.artist, probe.track)]
    IN  /\ probe.chosen = it
        /\ it.hasB => probe.out = [kind |-> "found", v |-> StrV(it.b.s)]

\* C13 witness: two items, only the second matches artist and title, and the
\* BPM returned is the second item's
C13_Witness ==
  /\ probe.fn = "api"
  /\ Len(probe.items) = 2
  /\ ~MatchesQuery(probe.items[1], probe.artist, probe.track)
  /\ MatchesQuery(probe.items[2], probe.artist, probe.track)
  /\ probe.items[1].hasB
  /\ probe.items[1].b.s # probe.items[2].b.s
  /\ probe.out = [kind |-> "found", v |-> StrV(probe.items[2].b.s)]

\* C14: after init_database returns the table exists; a further call on the
\* initialised store changes no record and raises nothing
C14_InitDatabaseIdempotent ==
  (probe.fn = "init" /\ ~probe.raised) =>
    /\ probe.after.table
    /\ probe.after.rows = probe.before.rows
    /\ \A fault \in FaultsOn(probe.after, TRUE) :
         InitDatabase(probe.after, fault) = [db |-> probe.after, raised |-> FALSE]

\* the API request of the run ended in a transport error, a status other
\* than 200 or a body that is no JSON
ApiFailed == last.api \in {"exc", "429", "status", "invalid"}

\* the candidates of the adapter that made the latest request
StepUrls ==
  IF last.step = "web" THEN TunebatUrls(artist, track) ELSE SongbpmUrls(artist, track)

\* C15: after a transport error, a non-200 status or an unparseable body the
\* API adapter goes on with the candidates of tunebat.com and returns what
\* that scraper returns; after an empty item list it returns None at once
C15_ApiFailureFallsThrough ==
  /\ (last.step = "api" /\ ApiFailed) =>
       (pc = "web" /\ idx = 1 /\ last.out = Uncalled /\ ret.tunebat = Uncalled)
  /\ (last.step = "web" /\ ApiFailed) =>
       /\ reqs = <<ApiUrl(artist, track)>> \o SubSeq(TunebatUrls(artist, track), 1, last.idx)
       /\ ret.tunebat = last.out
  /\ (last.step = "api" /\ last.api = "items" /\ last.found.kind = "return") =>
       (ret.tunebat = None /\ pc = "songbpm" /\ Len(reqs) = 1)

\* C15 witness: the body of the API answer was no JSON, and the value found
\* on a page of tunebat.com is what the API adapter returned
C15_Witness ==
  /\ last.step = "web"
  /\ last.api = "invalid"
  /\ last.found.kind = "value"
  /\ Truthy(ret.tunebat)
  /\ ret.tunebat = last.found.v

\* C16 as stated: after a 429 the API request is not made again and the API
\* adapter returns None
C16_RateLimitIsNotFound ==
  (last.api = "429" /\ ret.tunebat # Uncalled) =>
    /\ ret.tunebat = None
    /\ Cardinality({i \in 1..Len(reqs) : reqs[i] = ApiUrl(artist, track)}) = 1

\* C16 as amended: after a 429 the API request is not made again; the
\* adapter goes on with the candidates of tunebat.com, returns what that
\* scraper returns, and None only after the last candidate
C16_RateLimitFallsThrough ==
  last.api = "429" =>
    /\ Cardinality({i \in 1..Len(reqs) : reqs[i] = ApiUrl(artist, track)}) = 1
    /\ last.step = "api" => (pc = "web" /\ idx = 1 /\ ret.tunebat = Uncalled)
    /\ last.step = "web" =>
         /\ reqs = <<ApiUrl(artist, track)>> \o SubSeq(TunebatUrls(artist, track), 1, last.idx)
         /\ ret.tunebat = last.out
         /\ ret.tunebat = None => last.idx = Len(TunebatUrls(artist, track))

\* C16 witness: the API answered 429 and the adapter returned the BPM of a
\* page of tunebat.com
C16_Witness ==
  /\ last.api = "429"
  /\ last.step = "web"
  /\ ret.tunebat = StrV(T117)
  /\ pc = "exit"

\* C17: a scraper that gets a page with an extractable BPM returns that
\* value, saved under the tag of its site, and makes no further request; it
\* returns None only after its last candidate
C17_StopsAtFirstExtractable ==
  last.step \in {"web", "songbpm"} =>
    /\ (last.kind = "ok" /\ last.found.kind = "value") =>
         /\ last.out = last.found.v
         /\ lastSave.called
         /\ lastSave.v = last.found.v
         /\ lastSave.source = IF last.step = "web" THEN "tunebat_web" ELSE "songbpm"
    /\ last.out = None => last.idx = Len(StepUrls)

\* C18: after a transport exception or a non-200 status on a candidate the
\* scraper makes its next request, or returns None after the last one and
\* the lookup goes on: nothing is raised
C18_RequestFailureIsNotFatal ==
  (last.step \in {"web", "songbpm"} /\ last.kind \in {"exc", "status"}) =>
    /\ outcome # "CRASH"
    /\ IF last.idx < Len(StepUrls)
       THEN /\ last.out = Uncalled
            /\ pc = last.step
            /\ idx = last.idx + 1
       ELSE /\ last.out = None
            /\ IF last.step = "web"
               THEN ret.tunebat = None /\ pc = "songbpm" /\ idx = 1
               ELSE ret.songbpm = None /\ pc = "exit"

\* C18 witness: the last candidate of tunebat.com raised, the adapter
\* returned None and songbpm.com is next
C18_Witness ==
  /\ last.step = "web"
  /\ last.kind = "exc"
  /\ last.idx = Len(TunebatUrls(artist, track))
  /\ ret.tunebat = None
  /\ pc = "songbpm"

\* the method has found a number
YieldsNumber(m) == m.kind = "value" /\ m.v.k \in {"str", "int"} /\ AllDigits(m.v.s)

\* the value the claim gives a page of songbpm.com: that of the first of the
\* methods 1, 2, 3, 4 that finds a number, not-found when none does
ClaimedExtract(page) ==
  IF YieldsNumber(SongbpmMethod1(page)) THEN SongbpmMethod1(page)
  ELSE IF YieldsNumber(SongbpmMethod2(page)) THEN SongbpmMethod2(page)
  ELSE IF YieldsNumber(SongbpmMethod3(page)) THEN SongbpmMethod3(page)
  ELSE IF YieldsNumber(SongbpmMethod4(page)) THEN SongbpmMethod4(page)
  ELSE NotFound

\* C19: on a page of songbpm.com the result is that of the first method, in
\* the order 1, 2, 3, 4, that finds a number; a method that finds its element
\* but no number does not stop the later ones; not-found when none finds one
C19_FirstHeuristicWins ==
  probe.fn = "songbpm" => probe.out = ClaimedExtract(probe.page)

\* a text that is an integer between 40 and 220
TempoInRange(text) == AllDigits(text) /\ ToInt(text) \in 40..220

\* C20: on a page of tunebat.com every value found by the BPM row of the
\* attribute table or by a class selector is an integer in 40..220, and the
\* regular expressions are used only when neither finds one
C20_StructuralValuesInRange ==
  probe.fn = "tunebat" =>
    /\ probe.m1.kind = "value" => TempoInRange(probe.m1.v.s)
    /\ probe.m2.kind = "value" => TempoInRange(probe.m2.v.s)
    /\ probe.out.m1 = probe.m1
    /\ probe.out.m23 = IF probe.m2.kind = "value" THEN probe.m2 ELSE probe.m3

====
